---------------------------- MODULE Spec2Model ----------------------------
(***************************************************************************)
(* train_folds.py: the k-fold training script of argus-freesound.          *)
(*                                                                         *)
(* The script parses --experiment, derives SAVE_DIR, writes source.py and  *)
(* params.json there, loads the fold and noisy metadata and then calls     *)
(* train_fold once per element of config.folds.  train_fold builds its     *)
(* datasets, loaders, model and callbacks and calls the blocking           *)
(* model.fit.                                                              *)
(*                                                                         *)
(* A path is a sequence of components and a component a sequence of        *)
(* strings, so that f'fold_{fold}' is built from the digits of the fold.   *)
(* An absolute path starts with the component Root.                        *)
(***************************************************************************)
EXTENDS Integers, Sequences, FiniteSets, TLC

\* ------------------------------------------------------------------ bounds

\* config.folds is drawn from the duplicate-free lists over 0 .. MaxFolds-1.
MaxFolds == 3

\* The longest config.folds of the runs that take every course of the metric.
MaxLongFolds == 2

\* ------------------------------------------------------- program constants

\* model.fit(..., max_epochs=700, ...)
max_epochs == 700

\* EarlyStopping(monitor='val_lwlrap', patience=18)
patience == 18

\* MonitorCheckpoint(save_dir, monitor='val_lwlrap', max_saves=1)
max_saves == 1

\* ------------------------------------------------------------------- paths

C(s) == <<s>>

Root == C("/")

IsAbs(p) == Len(p) > 0 /\ p[1] = Root

\* pathlib's a / b: an absolute right operand replaces the left one.
Join(a, b) == IF IsAbs(b) THEN b ELSE a \o b

\* p is d or lies below d.
Under(p, d) == Len(d) <= Len(p) /\ SubSeq(p, 1, Len(d)) = d

\* d and every ancestor directory of d (the root excluded from nothing).
Ancestors(d) == { SubSeq(d, 1, n) : n \in 1 .. Len(d) }

Digit == <<"0", "1", "2", "3", "4", "5", "6", "7", "8", "9">>

RECURSIVE ToStr(_)
\* str(n) of a natural number, digit by digit.
ToStr(n) == IF n < 10 THEN <<Digit[n + 1]>>
            ELSE ToStr(n \div 10) \o <<Digit[(n % 10) + 1]>>

\* The name without the fold in it.
FoldNameConst(fold) == <<"fold_">>

\* f'fold_{fold}'
FoldName(fold) == <<"fold_">> \o ToStr(fold)

\* config.experiments_dir
experiments_dir == <<Root, C("workdir"), C("data"), C("experiments")>>

\* ------------------------------------------------------------- file system

Dir == [kind |-> "dir", content |-> "-"]

File(c) == [kind |-> "file", content |-> c]

Exists(f, p) == p \in DOMAIN f

Put(f, p, v) == [q \in DOMAIN f \cup {p} |-> IF q = p THEN v ELSE f[q]]

Remove(f, P) == [q \in DOMAIN f \ P |-> f[q]]

\* Path.mkdir(parents=True, exist_ok=True): d and its missing ancestors.
MkdirParents(f, d) ==
    [q \in DOMAIN f \cup Ancestors(d) |-> IF q \in DOMAIN f THEN f[q] ELSE Dir]

Created(f, d) == Ancestors(d) \ DOMAIN f

\* ------------------------------------------------------------------ inputs

RECURSIVE Perms(_)
\* The duplicate-free lists that hold exactly the elements of S.
Perms(S) == IF S = {} THEN { <<>> }
            ELSE UNION { { <<x>> \o t : t \in Perms(S \ {x}) } : x \in S }

FoldIds == 0 .. (MaxFolds - 1)

\* config.folds: a list of distinct folds.
FoldLists == UNION { Perms(S) : S \in SUBSET FoldIds }

\* The values of --experiment: a plain name, a nested name, an absolute path.
Experiments == { <<C("exp")>>,
                 <<C("runs"), C("exp")>>,
                 <<Root, C("tmp"), C("exp")>> }

\* The command lines: without --experiment, or with one value.
CommandLines == { <<>> } \cup { <<e>> : e \in Experiments }


\* An empty file system: the root directory alone.
Bare == Put(<<>>, <<Root>>, Dir)

\* A first run: the data directory, the parent of config.experiments_dir,
\* is there and nothing else.
FirstRun ==
    MkdirParents(Bare, SubSeq(experiments_dir, 1, Len(experiments_dir) - 1))

\* A directory d left by an earlier run: its files, and fold 0's outputs.
Stale(d) ==
    LET f0 == MkdirParents(FirstRun, Join(d, <<FoldName(0)>>))
        f1 == Put(f0, Join(d, <<C("source.py")>>), File("old source"))
        f2 == Put(f1, Join(d, <<C("params.json")>>), File("old params"))
        f3 == Put(f2, Join(d, <<FoldName(0), C("log.txt")>>), File("old log"))
    IN  Put(f3, Join(d, <<FoldName(0), <<"model-", "0">>>>), File("old model"))

\* The file systems a run may start on: of a first run, with experiments_dir
\* made, or with the experiment directory of an earlier run.
InitialFs(cmd) ==
    IF cmd = <<>> THEN { FirstRun }
    ELSE { FirstRun,
           MkdirParents(FirstRun, experiments_dir),
           Stale(Join(experiments_dir, cmd[1])) }

\* The course of the monitored metric over one fit: val_lwlrap improves in
\* every `period`-th epoch up to epoch `last` and never after it.  last = 0
\* is a metric that never improves (NaN from the first epoch on).
Improves(r, e) == e <= r.last /\ e % r.period = 0

\* A metric that improves twice and then stays: EarlyStopping ends the fit.
ShortRuns == { [period |-> 1, last |-> 2] }

\* Also: a metric that never improves; one that improves just within the
\* patience, to the last epoch; one whose last improvement is patience
\* epochs before max_epochs.
LongRuns == ShortRuns \cup { [period |-> 1, last |-> 0],
                             [period |-> patience, last |-> max_epochs],
                             [period |-> 11, last |-> max_epochs - patience] }

\* ------------------------------------------------------------------- state

VARIABLES
    argv,        \* the command line: <<>> or <<value of --experiment>>
    folds,       \* config.folds
    runs,        \* the metric courses the training may take
    fs,          \* the file system: path -> Dir or File(content)
    pc,          \* the script's position
    SAVE_DIR,    \* module constant SAVE_DIR (<<>> before it is derived)
    out,         \* what the script printed
    touched,     \* the paths the process created, wrote or removed
    folds_data,  \* the object load_folds_data returned (0: not loaded)
    noisy_data,  \* the object load_noisy_data returned (0: not loaded)
    heap,        \* the number of objects allocated so far
    i,           \* the position of the for loop in config.folds
    calls,       \* the train_fold calls made, in order, with their arguments
    train_folds, \* the list train_folds of the running call
    returned,    \* the number of train_fold calls that returned
    frame,       \* the local objects of the running train_fold call
    fitting,     \* the calls (positions in calls) whose fit is running
    run,         \* the metric course of the running fit
    epoch,       \* epochs completed by the running fit
    wait,        \* EarlyStopping.wait of the running fit
    saved,       \* MonitorCheckpoint's saved files of the running fit
    total,       \* epochs completed by all fits of the run
    raised       \* an exception was raised and not caught

vars == <<argv, folds, runs, fs, pc, SAVE_DIR, out, touched, folds_data,
          noisy_data, heap, i, calls, train_folds, returned, frame, fitting,
          run, epoch,
          wait, saved, total, raised>>

\* What a step of the script leaves alone.
data == <<folds_data, noisy_data>>

loop == <<i, calls, train_folds, returned, frame, fitting>>

fit == <<run, epoch, wait, saved, total>>

env == <<argv, folds, runs, raised>>

\* PARAMS
PARAMS ==
    [nn_module |-> <<"SkipAttention", "num_classes=len(config.classes)",
                     "base_size=64", "dropout=0.2", "ratio=16",
                     "kernel_size=7", "last_filters=4">>,
     loss      |-> <<"OnlyNoisyLSoftLoss", "beta=0.7", "noisy_weight=0.5",
                     "curated_weight=0.5">>,
     optimizer |-> <<"Adam", "lr=0.0009">>,
     device    |-> <<"cuda">>,
     amp       |-> <<"opt_level=O2", "keep_batchnorm_fp32=True",
                     "loss_scale=dynamic">>]

NoRun == [period |-> 1, last |-> 0]

InitWith(R) ==
    /\ argv \in CommandLines
    /\ folds \in FoldLists
    /\ runs = R
    /\ fs \in InitialFs(argv)
    /\ pc = "parse"
    /\ SAVE_DIR = <<>>
    /\ out = <<>>
    /\ touched = {}
    /\ folds_data = 0
    /\ noisy_data = 0
    /\ heap = 0
    /\ i = 1
    /\ calls = <<>>
    /\ train_folds = <<>>
    /\ returned = 0
    /\ frame = {}
    /\ fitting = {}
    /\ run = NoRun
    /\ epoch = 0
    /\ wait = 0
    /\ saved = <<>>
    /\ total = 0
    /\ raised = FALSE

Init == InitWith(ShortRuns)

\* ------------------------------------------------- module level, lines 17-31

\* parser.add_argument('--experiment', required=True, type=str)
Missing(cmd) == cmd = <<>>

\* An optional --experiment with a default value.
ParseArgsDefault ==
    /\ pc = "parse"
    /\ SAVE_DIR' = Join(experiments_dir,
                        IF argv = <<>> THEN <<C("default")>> ELSE argv[1])
    /\ pc' = "main"
    /\ UNCHANGED <<env, fs, out, touched, data, heap, loop, fit>>

\* parse_args() ends the script when --experiment is missing; otherwise
\* SAVE_DIR = config.experiments_dir / args.experiment.
ParseArgs ==
    /\ pc = "parse"
    /\ IF Missing(argv)
       THEN /\ pc' = "usage"
            /\ UNCHANGED SAVE_DIR
       ELSE /\ SAVE_DIR' = Join(experiments_dir, argv[1])
            /\ pc' = "main"
    /\ UNCHANGED <<env, fs, out, touched, data, heap, loop, fit>>

\* ------------------------------------------------------ __main__, 102-116

\* if not SAVE_DIR.exists(): SAVE_DIR.mkdir(parents=True, exist_ok=True)
MakeSaveDir ==
    /\ pc = "main"
    /\ ~Exists(fs, SAVE_DIR)
    /\ fs' = MkdirParents(fs, SAVE_DIR)
    /\ touched' = touched \cup Created(fs, SAVE_DIR)
    /\ pc' = "open_source"
    /\ UNCHANGED <<env, SAVE_DIR, out, data, heap, loop, fit>>

\* A script that gives up on an existing folder.
AfterExistsAbort == "done"

\* Where the script goes on after finding SAVE_DIR.
AfterExists == "open_source"

\* else: print(f"Folder {SAVE_DIR} already exists.")
NoticeExists ==
    /\ pc = "main"
    /\ Exists(fs, SAVE_DIR)
    /\ out' = Append(out, "Folder already exists.")
    /\ pc' = AfterExists
    /\ UNCHANGED <<env, fs, SAVE_DIR, touched, data, heap, loop, fit>>

\* open(SAVE_DIR / 'source.py', 'w'): creates or truncates the file.
OpenSource ==
    /\ pc = "open_source"
    /\ fs' = Put(fs, Join(SAVE_DIR, <<C("source.py")>>), File(""))
    /\ touched' = touched \cup { Join(SAVE_DIR, <<C("source.py")>>) }
    /\ pc' = "write_source"
    /\ UNCHANGED <<env, SAVE_DIR, out, data, heap, loop, fit>>

\* outfile.write(open(__file__).read())
WriteSource ==
    /\ pc = "write_source"
    /\ fs' = Put(fs, Join(SAVE_DIR, <<C("source.py")>>), File("source"))
    /\ pc' = "open_params"
    /\ UNCHANGED <<env, SAVE_DIR, out, touched, data, heap, loop, fit>>

\* print("Model params", PARAMS); open(SAVE_DIR / 'params.json', 'w')
OpenParams ==
    /\ pc = "open_params"
    /\ out' = Append(out, "Model params")
    /\ fs' = Put(fs, Join(SAVE_DIR, <<C("params.json")>>), File(""))
    /\ touched' = touched \cup { Join(SAVE_DIR, <<C("params.json")>>) }
    /\ pc' = "dump_params"
    /\ UNCHANGED <<env, SAVE_DIR, data, heap, loop, fit>>

\* json.dump(PARAMS, outfile)
DumpParams ==
    /\ pc = "dump_params"
    /\ fs' = Put(fs, Join(SAVE_DIR, <<C("params.json")>>), File("params"))
    /\ pc' = "load_folds"
    /\ UNCHANGED <<env, SAVE_DIR, out, touched, data, heap, loop, fit>>

\* folds_data = load_folds_data()
LoadFolds ==
    /\ pc = "load_folds"
    /\ heap' = heap + 1
    /\ folds_data' = heap + 1
    /\ pc' = "load_noisy"
    /\ UNCHANGED <<env, fs, SAVE_DIR, out, touched, noisy_data, loop, fit>>

\* noisy_data = load_noisy_data()
LoadNoisy ==
    /\ pc = "load_noisy"
    /\ heap' = heap + 1
    /\ noisy_data' = heap + 1
    /\ pc' = "loop"
    /\ UNCHANGED <<env, fs, SAVE_DIR, out, touched, folds_data, loop, fit>>


\* --------------------------------------------------- the fold loop, 118-125

ToSet(s) == { s[k] : k \in DOMAIN s }

\* The folds taken from the end of the list.
CurrentFoldReversed(fl, k) == fl[Len(fl) - k + 1]

\* for fold in config.folds: the fold of the k-th iteration.
CurrentFold(fl, k) == fl[k]

\* An off-by-one end of the loop: the last fold is left out.
ExhaustedEarly(fl, k) == k >= Len(fl)

\* The loop is over when the list is exhausted.
Exhausted(fl, k) == k > Len(fl)

\* val_folds = [fold]
ValFolds(fold) == <<fold>>

\* The validation fold left among the training folds.
TrainFoldsAll(fl, val) == ToSet(fl)

\* set(config.folds) - set(val_folds)
TrainFolds(fl, val) == ToSet(fl) \ ToSet(val)

\* The fold directory made beside the experiment directory, not in it.
SaveFoldDirBeside(d, fold) == Join(experiments_dir, <<FoldName(fold)>>)

\* save_fold_dir = SAVE_DIR / f'fold_{fold}'
SaveFoldDir(d, fold) == Join(d, <<FoldName(fold)>>)

\* The locals train_fold binds (lines 58-93).
Locals == <<"train_transfrom", "mixer", "curated_dataset", "noisy_dataset",
            "train_dataset", "val_dataset", "train_loader", "val_loader",
            "model", "callbacks">>

\* The model built once and used by every fold.
SharedModel(h) ==
    { [name |-> Locals[k], id |-> IF Locals[k] = "model" THEN 0 ELSE h + k] :
        k \in DOMAIN Locals }

\* The objects one train_fold call constructs, h objects being allocated
\* before it.
NewObjects(h) == { [name |-> Locals[k], id |-> h + k] : k \in DOMAIN Locals }

\* One iteration: the arguments are computed and printed, train_fold is
\* called and builds its transforms, mixer, datasets, loaders, model and
\* callbacks (lines 58-93).  list(set) may come in any order.
TrainFoldCall ==
    /\ pc = "loop"
    /\ ~Exhausted(folds, i)
    /\ LET fold == CurrentFold(folds, i)
           val_folds == ValFolds(fold)
           save_fold_dir == SaveFoldDir(SAVE_DIR, fold)
       IN  /\ train_folds' \in Perms(TrainFolds(folds, val_folds))
           /\ out' = out \o <<"Val folds, Train folds", "Fold save dir">>
           /\ calls' = Append(calls, [save_dir    |-> save_fold_dir,
                                      train_folds |-> ToSet(train_folds'),
                                      val_folds   |-> val_folds,
                                      folds_data  |-> folds_data,
                                      noisy_data  |-> noisy_data,
                                      params      |-> PARAMS,
                                      objects     |-> NewObjects(heap)])
    /\ frame' = NewObjects(heap)
    /\ heap' = heap + Len(Locals)
    /\ pc' = "fit_start"
    /\ UNCHANGED <<env, fs, SAVE_DIR, touched, data, i, returned, fitting,
                   fit>>

\* for ... in config.folds ends; the script ends with it.
LoopEnd ==
    /\ pc = "loop"
    /\ Exhausted(folds, i)
    /\ pc' = "done"
    /\ UNCHANGED <<env, fs, SAVE_DIR, out, touched, data, heap, loop, fit>>

\* ------------------------------------------------------- model.fit, 88-99

\* The save_dir of the running train_fold call.
save_dir == calls[Len(calls)].save_dir

\* LoggingToFile(save_dir / 'log.txt')
LogFile(d) == Join(d, <<C("log.txt")>>)

\* The file MonitorCheckpoint saves after epoch e.
ModelFile(d, e) == Join(d, << <<"model-">> \o ToStr(e) >>)

\* fit begins: the callbacks start.  MonitorCheckpoint and LoggingToFile
\* create save_dir, and the log file is opened.
FitStart ==
    /\ pc = "fit_start"
    /\ fs' = Put(MkdirParents(fs, save_dir), LogFile(save_dir), File("log"))
    /\ touched' = touched \cup Created(fs, save_dir) \cup { LogFile(save_dir) }
    /\ fitting' = fitting \cup { Len(calls) }
    /\ \E r \in runs : run' = r
    /\ epoch' = 0
    /\ wait' = 0
    /\ saved' = <<>>
    /\ pc' = "fit"
    /\ UNCHANGED <<env, SAVE_DIR, out, data, heap, i, calls, train_folds,
                   returned, frame, total>>

\* A fit given no max_epochs: only EarlyStopping ends it.
FitOverByPatience(e, w) == w >= patience

\* The training loop ends: max_epochs=700 epochs are done, or EarlyStopping
\* (patience=18) has seen that many epochs in a row without improvement.
FitOver(e, w) == e >= max_epochs \/ w >= patience

\* One epoch of training and validation, and the callbacks after it:
\* MonitorCheckpoint saves the model when val_lwlrap improved and keeps
\* max_saves files, EarlyStopping counts the epochs without improvement,
\* LoggingToFile appends to log.txt.
Epoch ==
    /\ pc = "fit"
    /\ ~FitOver(epoch, wait)
    /\ LET e == epoch + 1
           improved == Improves(run, e)
           file == ModelFile(save_dir, e)
           kept == IF improved THEN Append(saved, file) ELSE saved
           drop == IF Len(kept) > max_saves THEN { Head(kept) } ELSE {}
           written == IF improved THEN { file } ELSE {}
       IN  /\ epoch' = e
           /\ wait' = IF improved THEN 0 ELSE wait + 1
           /\ saved' = IF drop = {} THEN kept ELSE Tail(kept)
           /\ fs' = Remove(IF improved THEN Put(fs, file, File("model"))
                                       ELSE fs, drop)
           /\ touched' = touched \cup written \cup drop
    /\ total' = total + 1
    /\ UNCHANGED <<env, pc, SAVE_DIR, out, data, heap, loop, run>>

\* fit returns, train_fold returns and its locals are dropped; the loop
\* goes on to the next fold.
FitReturn ==
    /\ pc = "fit"
    /\ FitOver(epoch, wait)
    /\ fitting' = fitting \ { Len(calls) }
    /\ frame' = {}
    /\ train_folds' = <<>>
    /\ returned' = returned + 1
    /\ i' = i + 1
    /\ run' = NoRun
    /\ epoch' = 0
    /\ wait' = 0
    /\ saved' = <<>>
    /\ pc' = "loop"
    /\ UNCHANGED <<env, fs, SAVE_DIR, out, touched, data, heap, calls, total>>

\* ------------------------------------------------------------- exceptions

\* The positions at which a call of the script can raise: the file system
\* calls, the loaders of the data, the constructors and fit.
Raising ==
    \/ pc \in { "main", "open_source", "write_source", "open_params",
                "dump_params", "load_folds", "load_noisy", "fit_start", "fit" }
    \/ pc = "loop" /\ ~Exhausted(folds, i)

\* A loop that catches what train_fold raises and goes on to the next fold.
RaiseCaught ==
    /\ pc \in { "fit_start", "fit" }
    /\ raised' = TRUE
    /\ frame' = {}
    /\ train_folds' = <<>>
    /\ fitting' = {}
    /\ i' = i + 1
    /\ pc' = "loop"
    /\ UNCHANGED <<argv, folds, runs, fs, SAVE_DIR, out, touched, data, heap,
                   calls, returned, fit>>

\* Nothing in the script catches: the exception unwinds train_fold and the
\* module, and the interpreter exits.
Raise ==
    /\ Raising
    /\ raised' = TRUE
    /\ frame' = {}
    /\ train_folds' = <<>>
    /\ fitting' = {}
    /\ pc' = "error"
    /\ UNCHANGED <<argv, folds, runs, fs, SAVE_DIR, out, touched, data, heap,
                   i, calls, returned, fit>>

\* ----------------------------------------------------------- specification

Next ==
    \/ ParseArgs
    \/ MakeSaveDir
    \/ NoticeExists
    \/ OpenSource
    \/ WriteSource
    \/ OpenParams
    \/ DumpParams
    \/ LoadFolds
    \/ LoadNoisy
    \/ TrainFoldCall
    \/ LoopEnd
    \/ FitStart
    \/ Epoch
    \/ FitReturn
    \/ Raise

Spec == Init /\ [][Next]_vars

\* The same script with every course of the metric, on the fold lists
\* 0 .. n-1.
InitEpochs ==
    /\ InitWith(LongRuns)
    /\ \E n \in 0 .. MaxLongFolds : folds = [k \in 1 .. n |-> k - 1]
    /\ argv \in { <<>>, <<<<C("exp")>>>> }
    /\ fs \in { FirstRun, Stale(Join(experiments_dir, <<C("exp")>>)) }

SpecEpochs == InitEpochs /\ [][Next]_vars


\* ------------------------------------------------------------------ claims

InTrainFold == pc \in { "fit_start", "fit" }

SourceFile == Join(SAVE_DIR, <<C("source.py")>>)

ParamsFile == Join(SAVE_DIR, <<C("params.json")>>)

Holds(p, c) == Exists(fs, p) /\ fs[p] = File(c)

IsDir(p) == Exists(fs, p) /\ fs[p] = Dir

\* C1: after a complete run train_fold has been called once per element of
\* config.folds, and every configured fold is the validation fold
\* (val_folds = [fold]) of exactly one call.
C1_EveryFoldValidatedOnce ==
    pc = "done" =>
        /\ Len(calls) = Len(folds)
        /\ returned = Len(folds)
        /\ \A f \in ToSet(folds) :
             Cardinality({ k \in DOMAIN calls : calls[k].val_folds = <<f>> }) = 1
        /\ \A k \in DOMAIN calls :
             \E f \in ToSet(folds) : calls[k].val_folds = <<f>>

C1_Witness == pc = "done" /\ Len(folds) >= 2 /\ Len(calls) = Len(folds)

\* C2: in every train_fold call val_folds is [fold], train_folds has no
\* duplicates and holds no validation fold, the two together are the
\* configured folds, and train_folds is non-empty when two distinct folds are
\* configured.
C2_FoldsPartitioned ==
    /\ InTrainFold =>
         /\ calls[Len(calls)].val_folds = <<folds[i]>>
         /\ calls[Len(calls)].train_folds = ToSet(train_folds)
         /\ Cardinality(ToSet(train_folds)) = Len(train_folds)
    /\ \A k \in DOMAIN calls :
         /\ Len(calls[k].val_folds) = 1
         /\ calls[k].train_folds \cap ToSet(calls[k].val_folds) = {}
         /\ calls[k].train_folds \cup ToSet(calls[k].val_folds) = ToSet(folds)
         /\ Cardinality(ToSet(folds)) >= 2 => calls[k].train_folds # {}

C2_Witness == pc = "fit" /\ Len(train_folds) >= 2 /\ Len(calls) >= 2

\* C3: folds are trained one after another in the order of config.folds: at
\* most one fit runs at a time, the running fit is the one of the latest
\* call, and a call is made only when every earlier call has returned.
C3_OneFoldAtATimeInOrder ==
    /\ Cardinality(fitting) <= 1
    /\ fitting \subseteq { Len(calls) }
    /\ Len(calls) <= returned + 1
    /\ fitting # {} => returned = Len(calls) - 1
    /\ pc = "loop" => returned = Len(calls)
    /\ \A k \in DOMAIN calls : calls[k].val_folds = <<folds[k]>>

C3_Witness == pc = "fit" /\ fitting = { 2 } /\ returned = 1 /\ epoch > 0

\* The outputs of a complete run are there: source.py and params.json in
\* SAVE_DIR, and for every configured fold its directory with log.txt.
OutputsThere ==
    /\ Holds(SourceFile, "source")
    /\ Holds(ParamsFile, "params")
    /\ \A k \in DOMAIN folds :
         /\ IsDir(SaveFoldDir(SAVE_DIR, folds[k]))
         /\ Holds(LogFile(SaveFoldDir(SAVE_DIR, folds[k])), "log")

\* C4 as stated: every path the script created or wrote lies under SAVE_DIR,
\* and after a complete run the outputs are there.
C4_NothingOutsideSaveDir ==
    /\ \A p \in touched : Under(p, SAVE_DIR)
    /\ pc = "done" => OutputsThere

\* C4, amended: every file the script wrote lies under SAVE_DIR, the only
\* paths it created outside SAVE_DIR are missing ancestor directories of
\* SAVE_DIR (mkdir(parents=True)), and after a complete run the outputs are
\* there.
C4_OutputsUnderSaveDir ==
    /\ \A p \in touched :
         \/ Under(p, SAVE_DIR)
         \/ p \in Ancestors(SAVE_DIR) /\ IsDir(p)
    /\ pc = "done" => OutputsThere

C4_Witness ==
    /\ pc = "done"
    /\ Len(folds) >= 2
    /\ \E p \in touched : ~Under(p, SAVE_DIR)
    /\ \E p \in touched : Under(p, SaveFoldDir(SAVE_DIR, folds[2]))

Ids(objs) == { o.id : o \in objs }

\* C5: nothing is carried from fold to fold: the objects of a train_fold
\* call are new (no call shares an object with another call or with the
\* loaded data), they are gone when the call has returned, every fit starts
\* at epoch 0, and every call is given the same folds_data and noisy_data,
\* loaded once, and builds its model from PARAMS.
C5_NothingCarriedOver ==
    /\ [](/\ ~InTrainFold => frame = {} /\ train_folds = <<>>
          /\ InTrainFold => frame = calls[Len(calls)].objects
          /\ \A k \in DOMAIN calls :
               /\ calls[k].folds_data = folds_data
               /\ calls[k].noisy_data = noisy_data
               /\ calls[k].params = PARAMS
               /\ { o.name : o \in calls[k].objects } = ToSet(Locals)
               /\ Ids(calls[k].objects) \cap { folds_data, noisy_data } = {}
               /\ \A j \in DOMAIN calls :
                    j # k => Ids(calls[j].objects) \cap Ids(calls[k].objects) = {})
    /\ [][/\ folds_data # 0 => folds_data' = folds_data
          /\ noisy_data # 0 => noisy_data' = noisy_data
          /\ pc = "fit_start" /\ pc' = "fit" =>
               epoch' = 0 /\ wait' = 0 /\ saved' = <<>>]_vars

C5_Witness == pc = "loop" /\ returned >= 2 /\ frame = {} /\ total > 0


\* C6: the script catches nothing: once a call has raised the run is over
\* (no step follows, so no later fold is trained), the calls made are the
\* ones of the first folds of config.folds, and raising leaves the file
\* system and the calls made as they were.
C6_ExceptionEndsRun ==
    /\ [](/\ raised => pc = "error"
          /\ pc = "error" => /\ raised
                             /\ ~ENABLED Next
                             /\ Len(calls) <= Len(folds)
                             /\ returned \in { Len(calls) - 1, Len(calls) }
                             /\ \A k \in DOMAIN calls :
                                  calls[k].val_folds = <<folds[k]>>)
    /\ [][raised' # raised =>
            /\ fs' = fs
            /\ touched' = touched
            /\ calls' = calls
            /\ returned' = returned]_vars

C6_Witness ==
    /\ pc = "error"
    /\ returned = 1
    /\ Len(calls) = 2
    /\ Len(folds) = 3
    /\ Holds(SourceFile, "source")
    /\ Holds(LogFile(calls[1].save_dir), "log")

\* The steps a run has left, at most: one fold takes the call, the start of
\* fit, max_epochs epochs and the return.
StepsLeft ==
    LET foldSteps == max_epochs + 3
        loopSteps == (Len(folds) - i + 1) * foldSteps + 1
    IN  CASE pc = "parse"        -> loopSteps + 9
          [] pc = "main"         -> loopSteps + 8
          [] pc = "open_source"  -> loopSteps + 7
          [] pc = "write_source" -> loopSteps + 6
          [] pc = "open_params"  -> loopSteps + 5
          [] pc = "dump_params"  -> loopSteps + 4
          [] pc = "load_folds"   -> loopSteps + 3
          [] pc = "load_noisy"   -> loopSteps + 2
          [] pc = "loop"         -> loopSteps
          [] pc = "fit_start"    -> loopSteps - 1
          [] pc = "fit"          -> loopSteps - 2 - epoch
          [] OTHER               -> 0

\* C7: a run terminates: every fit ends after at most max_epochs = 700
\* epochs, and no epoch follows 18 epochs in a row without improvement; the
\* run has done at most 700 * len(config.folds) epochs; every step of the
\* script lowers a bound on the steps left, and when the loop is exhausted
\* the script ends.
C7_RunTerminates ==
    /\ [](/\ epoch <= max_epochs
          /\ wait <= patience
          /\ total <= max_epochs * Len(folds)
          /\ StepsLeft \in Nat
          /\ pc \in { "done", "error", "usage" } <=> ~ENABLED Next)
    /\ [][/\ StepsLeft' < StepsLeft
          /\ epoch' > epoch => wait < patience /\ epoch < max_epochs
          /\ pc = "loop" /\ i > Len(folds) => pc' = "done"]_vars

C7_Witness ==
    /\ pc = "done"
    /\ Len(folds) = 2
    /\ total = max_epochs + patience

\* C8: the train_fold calls of one run have different save directories, none
\* inside another, and the training of a fold leaves everything under the
\* save directories of the other calls as it is.
C8_FoldOutputsApart ==
    /\ [](\A j, k \in DOMAIN calls :
            j # k => ~Under(calls[j].save_dir, calls[k].save_dir))
    /\ [][InTrainFold =>
            \A k \in 1 .. (Len(calls) - 1) :
              \A p \in DOMAIN fs :
                Under(p, calls[k].save_dir) =>
                    p \in DOMAIN fs' /\ fs'[p] = fs[p]]_vars

C8_Witness ==
    /\ pc = "fit"
    /\ Len(calls) = 2
    /\ saved = <<ModelFile(calls[2].save_dir, 2)>>
    /\ Holds(ModelFile(calls[1].save_dir, 2), "model")
    /\ Holds(LogFile(calls[1].save_dir), "log")

\* C9: without --experiment the script ends in argument parsing: SAVE_DIR is
\* never derived, the file system is never changed, no data is loaded and no
\* fold is trained; with it SAVE_DIR is config.experiments_dir / <experiment>
\* and that is where source.py and params.json are written.
C9_ExperimentRequired ==
    /\ [](/\ argv = <<>> =>
               /\ pc \in { "parse", "usage" }
               /\ SAVE_DIR = <<>>
               /\ touched = {}
               /\ folds_data = 0 /\ noisy_data = 0
               /\ calls = <<>> /\ total = 0
          /\ argv # <<>> /\ pc # "parse" =>
               /\ SAVE_DIR = Join(experiments_dir, argv[1])
               /\ \A p \in touched : Len(p) >= Len(SAVE_DIR) => Under(p, SAVE_DIR))
    /\ [][argv = <<>> => fs' = fs /\ out' = out]_vars

C9_Witness == pc = "usage" /\ argv = <<>> /\ fs = FirstRun

Notice == "Folder already exists."

\* What train_fold is called with for the k-th configured fold.
ExpectedCall(k) ==
    [save_dir    |-> Join(SAVE_DIR, <<FoldName(folds[k])>>),
     train_folds |-> ToSet(folds) \ { folds[k] },
     val_folds   |-> <<folds[k]>>]

\* C10: an existing SAVE_DIR does not stop the run: the script prints the
\* notice, changes nothing and goes on; whether SAVE_DIR existed or not, a
\* complete run has written source.py and params.json and called train_fold
\* for every configured fold with the same arguments; and both files are
\* written before the data is loaded and before any fold is trained.
C10_ExistingDirDoesNotStop ==
    /\ [](/\ pc = "done" =>
               /\ Holds(SourceFile, "source")
               /\ Holds(ParamsFile, "params")
               /\ Len(calls) = Len(folds)
               /\ \A k \in DOMAIN calls :
                    /\ calls[k].save_dir = ExpectedCall(k).save_dir
                    /\ calls[k].train_folds = ExpectedCall(k).train_folds
                    /\ calls[k].val_folds = ExpectedCall(k).val_folds
          /\ folds_data # 0 \/ noisy_data # 0 \/ calls # <<>> =>
               Holds(SourceFile, "source") /\ Holds(ParamsFile, "params"))
    /\ [][pc = "main" /\ Exists(fs, SAVE_DIR) /\ ~raised' =>
            /\ pc' = "open_source"
            /\ out' = Append(out, Notice)
            /\ fs' = fs]_vars

C10_Witness ==
    /\ pc = "done"
    /\ Len(calls) >= 2
    /\ Notice \in ToSet(out)
    /\ SAVE_DIR \notin touched

============================================================================
